---- MODULE Spec2Model ----
(***************************************************************************)
(* A model of the chunk / summarize / merge pipeline of the voice          *)
(* assistant backend: company.split_chunks as a pure operator on character *)
(* sequences, and the orchestrators analyze_company_website and            *)
(* summarize_cv with the remote model client call_llm.                     *)
(*                                                                         *)
(* A text is a sequence of one-character strings.                          *)
(***************************************************************************)
EXTENDS Integers, Sequences, FiniteSets, TLC

\* ------------------------------------------------------------------ bounds

\* Longest input text of the chunker specification SpecSplit.
MaxLen == 8
\* Largest chunk limit of the chunker specification SpecSplit.
MaxLimit == 4
\* Most words of a scraped page's content, and most lines of a CV less one.
MaxWords == 2
\* Letters of each such word or line.
WordLen == 6
\* The two settings of CHUNK_CHAR_LIMIT (an environment setting) the
\* orchestrators run with.
SmallLimit == 12
LargeLimit == 16
\* Longest input text and largest chunk limit of the chunker specification
\* SpecScenario: a text of 12 characters split with limit 5 has the
\* proportions of one of 12,000 characters split with limit 5,000.
ScenarioLen == 12
ScenarioLimit == 5
\* Concurrent requests of the server specification SpecLoop, and most
\* remote-model calls of one website analysis in it.
NumTasks == 3
LoopCalls == 3

\* The lines of a pasted LinkedIn profile.
MaxLines == 3

\* ----------------------------------------------------------- text helpers

\* The characters Python's str.split() and the regex class \s treat as
\* whitespace, as far as the inputs of the model use them.
Whitespace == {" ", "\n"}

\* The characters of the chunker's input texts.
SplitChars == {"a", "b", " "}

\* sep.join(parts)
RECURSIVE join(_, _)
join(sep, parts) ==
    IF parts = <<>> THEN <<>>
    ELSE IF Len(parts) = 1 THEN parts[1]
    ELSE parts[1] \o sep \o join(sep, Tail(parts))

\* The scan behind text.split(): maximal runs of non-whitespace characters.
RECURSIVE Tokens(_, _, _)
Tokens(s, i, cur) ==
    IF i > Len(s)
    THEN IF cur = <<>> THEN <<>> ELSE <<cur>>
    ELSE IF s[i] \in Whitespace
         THEN IF cur = <<>>
              THEN Tokens(s, i + 1, <<>>)
              ELSE <<cur>> \o Tokens(s, i + 1, <<>>)
         ELSE Tokens(s, i + 1, Append(cur, s[i]))

\* text.split()
str_split(s) == Tokens(s, 1, <<>>)

\* s.strip()
RECURSIVE lstrip(_)
lstrip(s) ==
    IF s # <<>> /\ Head(s) \in Whitespace THEN lstrip(Tail(s)) ELSE s

RECURSIVE rstrip(_)
rstrip(s) ==
    IF s # <<>> /\ s[Len(s)] \in Whitespace
    THEN rstrip(SubSeq(s, 1, Len(s) - 1))
    ELSE s

strip(s) == rstrip(lstrip(s))

\* re.sub(r'\s+', ' ', s): every run of whitespace becomes one space.
RECURSIVE collapse_ws(_)
collapse_ws(s) ==
    IF s = <<>> THEN <<>>
    ELSE IF Head(s) \in Whitespace
         THEN <<" ">> \o collapse_ws(lstrip(s))
         ELSE <<Head(s)>> \o collapse_ws(Tail(s))

\* s.split(ch): the pieces between the occurrences of the character ch.
RECURSIVE SplitOn(_, _, _, _)
SplitOn(s, ch, i, cur) ==
    IF i > Len(s) THEN <<cur>>
    ELSE IF s[i] = ch
         THEN <<cur>> \o SplitOn(s, ch, i + 1, <<>>)
         ELSE SplitOn(s, ch, i + 1, Append(cur, s[i]))

str_split_on(s, ch) == SplitOn(s, ch, 1, <<>>)

\* s.splitlines(): as split on the newline, without a final empty line.
splitlines(s) ==
    LET parts == str_split_on(s, "\n")
    IN  IF parts[Len(parts)] = <<>>
        THEN SubSeq(parts, 1, Len(parts) - 1)
        ELSE parts

\* [f(x) for x in xs if keep(x)] for the line filters of clean_text.
RECURSIVE SelectLines(_, _)
SelectLines(lines, minlen) ==
    IF lines = <<>> THEN <<>>
    ELSE IF Len(strip(Head(lines))) > minlen
         THEN <<strip(Head(lines))>> \o SelectLines(Tail(lines), minlen)
         ELSE SelectLines(Tail(lines), minlen)

\* s[:n]
Take(s, n) == SubSeq(s, 1, IF Len(s) < n THEN Len(s) ELSE n)

\* All texts over the character set cs of length at most n.
TextsUpTo(cs, n) == UNION {[1..k -> cs] : k \in 0..n}

\* The characters of the texts of SpecScenario.
ScenarioChars == {"a", " "}

\* ---------------------------------------------------- company.split_chunks

\* The early return of split_chunks: the text fits the limit.
FitsLimitStrict(text, limit) == Len(text) < limit
FitsLimitOrBlank(text, limit) == Len(text) <= limit \/ str_split(text) = <<>>
FitsLimit(text, limit) == Len(text) <= limit

\* The test that closes the running chunk before a word.
ShouldCloseNoSep(current_length, word, limit, current_chunk) ==
    current_length + Len(word) > limit /\ current_chunk # <<>>
ShouldCloseEvenEmpty(current_length, word, limit, current_chunk) ==
    current_length + Len(word) + 1 > limit
ShouldClose(current_length, word, limit, current_chunk) ==
    current_length + Len(word) + 1 > limit /\ current_chunk # <<>>

\* The branch that closes the running chunk and starts the next with word.
CloseChunkDropWord(st, word) ==
    [chunks |-> Append(st.chunks, join(<<" ">>, st.current_chunk)),
     current_chunk |-> <<>>,
     current_length |-> 0]
CloseChunk(st, word) ==
    [chunks |-> Append(st.chunks, join(<<" ">>, st.current_chunk)),
     current_chunk |-> <<word>>,
     current_length |-> Len(word)]

\* The branch that appends word to the running chunk.
ExtendChunkNoSep(st, word) ==
    [chunks |-> st.chunks,
     current_chunk |-> Append(st.current_chunk, word),
     current_length |-> st.current_length + Len(word)]
ExtendChunk(st, word) ==
    [chunks |-> st.chunks,
     current_chunk |-> Append(st.current_chunk, word),
     current_length |-> st.current_length + Len(word) + 1]

\* The loop over the words, from word i on.
RECURSIVE ChunkLoop(_, _, _, _)
ChunkLoop(words, i, limit, st) ==
    IF i > Len(words) THEN st
    ELSE ChunkLoop(words, i + 1, limit,
             IF ShouldClose(st.current_length, words[i], limit, st.current_chunk)
             THEN CloseChunk(st, words[i])
             ELSE ExtendChunk(st, words[i]))

split_chunks(text, limit) ==
    IF FitsLimit(text, limit) THEN <<text>>
    ELSE LET st == ChunkLoop(str_split(text), 1, limit,
                       [chunks |-> <<>>, current_chunk |-> <<>>,
                        current_length |-> 0])
         IN  IF st.current_chunk # <<>>
             THEN Append(st.chunks, join(<<" ">>, st.current_chunk))
             ELSE st.chunks

\* ------------------------------------------------------ company.clean_text

\* A line of the cleaned text is kept when it is longer than this.
MIN_LINE_CHARS == 10

clean_text(text) ==
    IF text = <<>> THEN <<>>
    ELSE join(<<"\n">>,
              SelectLines(str_split_on(strip(collapse_ws(text)), "\n"),
                          MIN_LINE_CHARS))

\* ------------------------------------------- cv.clean_text, cv.split_chunks

\* The inputs of the model hold no carriage return, so replace("\r", "")
\* leaves them as they are.
cv_clean_text(t) == join(<<"\n">>, SelectLines(str_split_on(t, "\n"), 0))

cv_CloseBuf(st, ln) ==
    [parts |-> Append(st.parts, strip(join(<<"\n">>, st.buf))),
     buf |-> <<ln>>,
     size |-> Len(ln)]

cv_ExtendBuf(st, ln) ==
    [parts |-> st.parts,
     buf |-> Append(st.buf, ln),
     size |-> st.size + Len(ln) + 1]

RECURSIVE cv_LineLoop(_, _, _, _)
cv_LineLoop(lines, i, limit, st) ==
    IF i > Len(lines) THEN st
    ELSE LET ln == strip(lines[i])
         IN  cv_LineLoop(lines, i + 1, limit,
                 IF st.size + Len(ln) + 1 > limit /\ st.buf # <<>>
                 THEN cv_CloseBuf(st, ln)
                 ELSE cv_ExtendBuf(st, ln))

cv_split_chunks(raw, limit) ==
    LET text == strip(raw)
    IN  IF Len(text) <= limit THEN <<text>>
        ELSE LET st == cv_LineLoop(splitlines(text), 1, limit,
                           [parts |-> <<>>, buf |-> <<>>, size |-> 0])
             IN  IF st.buf # <<>>
                 THEN Append(st.parts, strip(join(<<"\n">>, st.buf)))
                 ELSE st.parts

\* ------------------------------------------------------- returned strings

\* A returned string is a tagged tuple: a fixed message, a text of the
\* remote model, an HTTP error text with the status and the length of the
\* quoted body, a transport error text, or a text built from a scraped page.
Fixed(msg) == <<"fixed", msg>>
ModelText(chars) == <<"text", chars>>
HttpErrorText(status, quoted) == <<"http", status, quoted>>
NetworkErrorText(what) == <<"neterr", what>>

MSG_NO_CONTENT == "Aucun contenu utilisable trouve sur le site web."
MSG_CV_EMPTY == "CV vide."
MSG_NO_KEY_COMPANY == "Erreur: GROQ_API_KEY non configuree"
MSG_NO_KEY_CV == "Erreur: variable GROQ_API_KEY absente."
MSG_EMPTY_COMPANY == "(Analyse vide)"
MSG_EMPTY_CV == "(Resume vide)"
MSG_PROMPT_REQUIRED == "Veuillez saisir un prompt."
MSG_DEGRADED_APP == "Mode degrade: aucune cle Groq fournie."
MSG_EMPTY_APP == "Reponse vide du modele."
MSG_NOT_UNDERSTOOD == "Je n'ai pas compris l'audio, veuillez reessayer."
MSG_DEGRADED_BATCH == "Mode degrade: GROQ_API_KEY manquante."
MSG_EMPTY_BATCH == "(reponse vide)"

\* ---------------------------------------------------------- the remote API

\* Characters of an HTTP error body quoted in the returned text.
ERROR_BODY_CHARS == 200

\* The outcomes of one HTTP exchange with the chat-completion endpoint:
\* no response (timeout, connection failure), a response with an error
\* status and a body of some length, or a 2xx response whose body is not
\* JSON, has an empty choices list, has no choices key, or carries a first
\* choice's content.
Response(kind, status, body, json, content) ==
    [kind |-> kind, status |-> status, body |-> body, json |-> json,
     content |-> content, retry_after |-> "absent", seconds |-> 0]

\* A 429 response: its Retry-After header is absent, a number of seconds,
\* or not a number.
RateLimited(retry_after, seconds) ==
    [kind |-> "status", status |-> 429, body |-> 0, json |-> "none",
     content |-> <<>>, retry_after |-> retry_after, seconds |-> seconds]

ModelContents == { <<" ", "o", "k", "\n">>, <<" ">> }

Responses ==
    { Response("timeout", 0, 0, "none", <<>>),
      Response("connect", 0, 0, "none", <<>>),
      Response("status", 500, ERROR_BODY_CHARS + 1, "none", <<>>),
      Response("status", 404, 0, "none", <<>>),
      Response("ok", 200, 0, "malformed", <<>>),
      Response("ok", 200, 0, "nochoices", <<>>),
      Response("ok", 200, 0, "absent", <<>>) }
    \cup { Response("ok", 200, 0, "content", c) : c \in ModelContents }

Failed(r) == r.kind \in {"timeout", "connect", "status"}

\* "if not GROQ_API_KEY": no credential is configured.
NoApiKeyNever(key) == FALSE
NoApiKey(key) == ~key

\* e.response.text[:cap]: the characters of a body of the given length that
\* an error text quotes.
QuotedBodyWhole(body, cap) == body
QuotedBody(body, cap) == IF body < cap THEN body ELSE cap

\* The placeholder a client returns for an empty completion: call_llm of
\* company and cv, _call_groq_text of the server (prompt, audio).
EmptyPlaceholderBlank(kind) == ModelText(<<>>)
EmptyPlaceholder(kind) ==
    CASE kind = "cv" -> Fixed(MSG_EMPTY_CV)
      [] kind = "company" -> Fixed(MSG_EMPTY_COMPANY)
      [] kind = "batch" -> Fixed(MSG_EMPTY_BATCH)
      [] OTHER -> Fixed(MSG_EMPTY_APP)

\* What call_llm returns for the outcome r of its one HTTP exchange.
LlmResultSwallowErrors(kind, r) ==
    IF r.kind = "ok" /\ r.json = "content" /\ strip(r.content) # <<>>
    THEN ModelText(strip(r.content))
    ELSE EmptyPlaceholder(kind)
LlmResult(kind, r) ==
    CASE r.kind = "status" ->
             HttpErrorText(r.status, QuotedBody(r.body, ERROR_BODY_CHARS))
      [] r.kind \in {"timeout", "connect"} -> NetworkErrorText(r.kind)
      [] r.kind = "ok" /\ r.json = "malformed" -> NetworkErrorText("json")
      [] r.kind = "ok" /\ r.json = "nochoices" -> NetworkErrorText("index")
      [] OTHER ->
             IF strip(r.content) # <<>>
             THEN ModelText(strip(r.content))
             ELSE EmptyPlaceholder(kind)

\* The early return of a client without a credential.
NoKeyText(kind) ==
    CASE kind = "cv" -> Fixed(MSG_NO_KEY_CV)
      [] kind = "company" -> Fixed(MSG_NO_KEY_COMPANY)
      [] kind = "batch" -> Fixed(MSG_DEGRADED_BATCH)
      [] OTHER -> Fixed(MSG_DEGRADED_APP)

\* ------------------------------------------------------- the orchestrators

\* The words asked of a segment are never fewer than this.
MIN_CHUNK_WORDS == 50

\* int(x) of a quotient: truncation towards zero.
IntTrunc(num, den) ==
    IF num >= 0 THEN num \div den ELSE -((-num) \div den)

\* The greatest power of two below m, from the power of two p.
RECURSIVE Pow2Below(_, _)
Pow2Below(p, m) == IF 2 * p < m THEN Pow2Below(2 * p, m) ELSE p

\* target_words * 0.7 / len(chunks) in double precision is below the exact
\* quotient when that quotient is a whole number and the product rounds
\* down.  The double 0.7 is 0.4 * 2^-53 below 7/10, so the product with T
\* is below the whole number m = 7T/10 by (4m/7) * 2^-53 and rounds to the
\* double under m when that exceeds half the spacing of the doubles under
\* m, that is when 4m > 7 * 2^k for 2^k < m <= 2^(k+1); the division by the
\* segment count then stays under the whole quotient.  The double 0.6 is
\* 0.2 * 2^-53 below 6/10, too near for the product to round down.
RoundsBelow(tenths, target, n) ==
    /\ tenths = 7
    /\ target > 0
    /\ (tenths * target) % (10 * n) = 0
    /\ 4 * ((tenths * target) \div 10)
           > 7 * Pow2Below(1, (tenths * target) \div 10)

\* max(50, int(target_words * 0.7 / len(chunks))); summarize_cv uses 0.6.
per_chunk_goal(kind, target, n) ==
    LET tenths == IF kind = "cv" THEN 6 ELSE 7
        share == IntTrunc(target * tenths, 10 * n)
                     - (IF RoundsBelow(tenths, target, n) THEN 1 ELSE 0)
    IN  IF share > MIN_CHUNK_WORDS THEN share ELSE MIN_CHUNK_WORDS

\* "if not raw_content" / "if not raw_text": nothing is left after cleaning.
NoUsableContentNever(raw) == FALSE
NoUsableContent(raw) == raw = <<>>

\* "if len(chunks) == 1": the single per-segment call is the result.
SingleChunkNever(chunks) == FALSE
SingleChunk(chunks) == Len(chunks) = 1

\* The label "[Segment i/N]" (company) or "[Partie i/N]" (cv) and the
\* partial joined below it.
PartialEntryZeroBased(kind, i, n, text) ==
    [label |-> <<IF kind = "cv" THEN "Partie" ELSE "Segment", i - 1, n>>,
     text |-> text]
PartialEntry(kind, i, n, text) ==
    [label |-> <<IF kind = "cv" THEN "Partie" ELSE "Segment", i, n>>,
     text |-> text]

\* The for loop over enumerate(chunks, 1) has a segment after segment i.
MoreChunksSkipLast(i, chunks) == i + 1 < Len(chunks)
MoreChunks(i, chunks) == i < Len(chunks)

\* A call of call_llm: the per-segment prompt with its word budget and
\* segment, or the fusion prompt with the final budget and the merged block.
ChunkCall(i, words, chunk) ==
    [op |-> "chunk", idx |-> i, words |-> words, chunk |-> chunk,
     merged |-> <<>>]
FusionCall(words, merged) ==
    [op |-> "fusion", idx |-> 0, words |-> words, chunk |-> <<>>,
     merged |-> merged]

\* The word budget of the call for segment i.
ChunkWords(kind, target, chunks) ==
    IF SingleChunk(chunks) THEN target
    ELSE per_chunk_goal(kind, target, Len(chunks))

\* ------------------------------------------------------------ the server

\* _guess_suffix, for the content types of the model.
_guess_suffix(content_type) ==
    CASE content_type = "audio/wav" -> ".wav"
      [] content_type = "audio/webm" -> ".webm"
      [] content_type = "audio/ogg" -> ".ogg"
      [] OTHER -> ".bin"

\* "suffix in ('.webm', '.ogg')": the upload is transcoded before whisper.
NeedsTranscode(suffix) == suffix \in {".webm", ".ogg"}

\* A call of _call_groq_text or call_groq_with_retries with a prompt.
TextCall(text) ==
    [op |-> "text", idx |-> 0, words |-> 0, chunk |-> text, merged |-> <<>>]

\* The content of the JSONResponse of the local-model server's
\* process_audio.
LocalBody(user_text, response_text) ==
    <<"body", [user_text |-> user_text, response_text |-> response_text]>>

\* list(llm(prompt=..., max_tokens=200, stop=[...])): the call returns the
\* completion as a dictionary, whose list is the list of its keys; or an
\* empty list.
LocalCompletions ==
    { <<>>, <<"id", "object", "created", "model", "choices", "usage">> }

\* "not user_text.strip()" of _call_groq_text.
EmptyPromptNoChars(user_text) == user_text = <<>>
EmptyPrompt(user_text) == strip(user_text) = <<>>

\* -------------------------------------------------- the retrying client

\* Retries after the first attempt.
MAX_RETRIES == 5

\* Characters of an HTTP error body quoted by the retrying client.
BATCH_ERROR_BODY_CHARS == 300

RECURSIVE Pow(_, _)
Pow(b, e) == IF e = 0 THEN 1 ELSE b * Pow(b, e - 1)

\* Ticks in a second: delays are counted in ticks, so that 1.5 ** attempt is
\* a whole number of ticks for every attempt up to MAX_RETRIES.
TICKS == Pow(2, MAX_RETRIES)

\* The largest jitter, random.uniform(0, 0.5), in ticks.
MAX_JITTER == TICKS \div 2

\* The cap of a backoff delay, 30 seconds, in ticks.
DELAY_CAP == 30 * TICKS

\* _retry_delay(attempt) with the jitter drawn: min(cap, 1.5 ** attempt + jitter)
_retry_delay(att, jitter) ==
    LET d == (TICKS * Pow(3, att)) \div Pow(2, att) + jitter
    IN  IF d < DELAY_CAP THEN d ELSE DELAY_CAP

\* _headers_delay: the Retry-After header as a number, or none.
HasHeaderDelayNever(r) == FALSE
HasHeaderDelay(r) == r.retry_after = "numeric"

\* "for attempt in range(MAX_RETRIES + 1)": the loop has an attempt after att.
NextAttemptInRangeOneMore(att) == att <= MAX_RETRIES
NextAttemptInRange(att) == att + 1 <= MAX_RETRIES

\* "attempt < MAX_RETRIES": a failed attempt is retried.
RetriesLeft(att) == att < MAX_RETRIES

\* "500 <= status < 600": the error status is retried.
ServerErrorOrClient(status) == 400 <= status /\ status < 600
ServerError(status) == 500 <= status /\ status < 600

\* The outcomes of an exchange of the retrying client.
BatchResponses ==
    { RateLimited("absent", 0), RateLimited("numeric", 7),
      RateLimited("invalid", 0),
      Response("timeout", 0, 0, "none", <<>>),
      Response("status", 500, BATCH_ERROR_BODY_CHARS + 1, "none", <<>>),
      Response("status", 404, 0, "none", <<>>),
      Response("ok", 200, 0, "malformed", <<>>),
      Response("ok", 200, 0, "nochoices", <<>>),
      Response("ok", 200, 0, "content", <<" ", "o", "k", "\n">>),
      Response("ok", 200, 0, "content", <<" ">>) }

\* The text call_groq_with_retries returns for an HTTP error status.
BatchHttpErrorText(r) ==
    HttpErrorText(r.status, QuotedBody(r.body, BATCH_ERROR_BODY_CHARS))

\* "Echec apres retries: {last_err}"
RetriesFailedText(err) == <<"retries_failed", err>>

\* ----------------------------------------------------------------- inputs

Letters == <<"a", "b", "c", "d", "e", "f">>
Word(i) == [k \in 1..WordLen |-> Letters[((i - 1) % Len(Letters)) + 1]]

\* k words joined by single spaces, as extract_text_from_html returns them.
Content(k) == join(<<" ">>, [i \in 1..k |-> Word(i)])

\* k lines, the second indented and followed by a blank line.
CvText(k) ==
    join(<<"\n">>,
         [i \in 1..k |-> IF i = 2 THEN <<" ">> \o Word(i) \o <<" ", "\n">>
                         ELSE Word(i)])

TITRE == <<"T", "i", "t", "r", "e", ":", " ">>
DESCRIPTION ==
    <<"D", "e", "s", "c", "r", "i", "p", "t", "i", "o", "n", ":", " ">>
CONTENU == <<"C", "o", "n", "t", "e", "n", "u", ":", " ">>

\* The record scrape_website returns.
ScrapeResult(success, title, meta, content, error) ==
    [success |-> success, title |-> title, meta_description |-> meta,
     content |-> content, error |-> error]

ScrapeResults ==
    { ScrapeResult(FALSE, <<>>, <<>>, <<>>, e) :
          e \in {"timeout", "http", "connect", "other"} }
    \cup { ScrapeResult(TRUE, <<>>, <<>>, Content(k), "") : k \in 0..MaxWords }
    \cup { ScrapeResult(TRUE, <<>>, <<>>, <<"a">>, ""),
           ScrapeResult(TRUE, <<"A", "c">>, <<>>, <<>>, ""),
           ScrapeResult(TRUE, <<>>, <<"d", "e", "s", "c">>, <<>>, ""),
           ScrapeResult(TRUE, <<"A", "\n", "B">>, <<>>, Content(1), "") }

CvTexts ==
    { CvText(k) : k \in 0..(MaxWords + 1) } \cup { <<" ", "\n", " ">> }

\* Prompts: empty, blank, and a text.
Prompts == { <<>>, <<" ", "\n">>, <<"h", "i">> }

\* Uploaded audio files: the content type, and whether the file is empty.
Uploads ==
    [content_type : {"audio/wav", "audio/webm", "audio/ogg", ""},
     empty : BOOLEAN]

\* What whisper returns as the text of a recording; _transcribe strips it,
\* and returns the empty text as well when the recognizer raises.
Recognized == { <<>>, <<" ">>, <<" ", "h", "i">> }

ChunkLimits == {SmallLimit, LargeLimit}
\* Target word counts: the default, one whose damped share the floating
\* point rounds down, zero and a negative one.
TargetWords == {300, 180, 0, -7}

\* "\n\n".join(content_parts) of analyze_company_website.
RawContent(sr) ==
    join(<<"\n", "\n">>,
         (IF sr.title # <<>> THEN <<TITRE \o sr.title>> ELSE <<>>)
         \o (IF sr.meta_description # <<>>
             THEN <<DESCRIPTION \o sr.meta_description>> ELSE <<>>)
         \o (IF sr.content # <<>> THEN <<CONTENU \o sr.content>> ELSE <<>>))

\* Characters of the cleaned content quoted when no credential is set.
BASIC_INFO_CHARS == 1000

\* The text returned without a credential: the page's title, description
\* and the head of its cleaned content.
BasicInfo(sr, raw) ==
    <<"basic_info", sr.title, sr.meta_description,
      Take(raw, BASIC_INFO_CHARS), Len(raw) > BASIC_INFO_CHARS>>

ScrapeFailedText(sr) == <<"scrape_failed", sr.error>>

\* --------------------------------------------------------------- linkedin

\* MAX_RETRIES of linkedin.py, the default of LinkedInScraper.max_retries.
li_MAX_RETRIES == 3

\* The default of LinkedInScraper.retry_delay, in seconds.
DEFAULT_RETRY_DELAY == 2

\* The wrappers scrape_linkedin_profile, scrape_linkedin_profile_async and
\* parse_linkedin_text.
Callers == {"basic", "async", "text"}

\* The two scraping methods, scrape_profile_basic and scrape_profile_async,
\* named as the wrappers scrape_linkedin_profile(_async) reach them.
Methods == {"basic", "async"}

\* A URL as urlparse sees it: its host, lower-cased, and whether its path,
\* lower-cased, contains "/in/".
Urls ==
    { [netloc |-> "www.linkedin.com", in_path |-> TRUE],
      [netloc |-> "linkedin.com", in_path |-> FALSE],
      [netloc |-> "example.com", in_path |-> TRUE] }

NoUrl == [netloc |-> "", in_path |-> FALSE]

is_valid_linkedin_url(url) ==
    url.netloc \in {"www.linkedin.com", "linkedin.com"} /\ url.in_path

\* The fields of the dataclass LinkedInProfile; asdict gives one key each.
ProfileFields ==
    {"name", "headline", "location", "summary", "experience", "education",
     "skills", "connections", "profile_url"}

\* The values of a record's fields: None, a text, a URL; a list is a
\* sequence.
None == <<"None">>
Str(text) == <<"str", text>>
UrlValue(url) == <<"url", url>>

\* LinkedInProfile(profile_url=...) after __post_init__, as to_dict gives it.
LinkedInProfile(profile_url) ==
    [k \in ProfileFields |->
        IF k \in {"experience", "education", "skills"} THEN <<>>
        ELSE IF k = "profile_url" THEN profile_url
        ELSE None]

\* The dictionary the three wrappers return from their except branch.
ErrorRecordOnlyError(err, summary, url) == [k \in {"error"} |-> Str(err)]
ErrorRecord(err, summary, url) ==
    [k \in {"error", "name", "headline", "location", "summary", "experience",
            "education", "skills", "profile_url"} |->
        IF k \in {"experience", "education", "skills"} THEN <<>>
        ELSE IF k = "error" THEN Str(err)
        ELSE IF k = "summary" THEN summary
        ELSE IF k = "profile_url" THEN url
        ELSE None]

\* What the selectors of extract_profile_from_html find in a page.
Pages ==
    { [name |-> None, headline |-> None],
      [name |-> Str("Ada Lovelace"), headline |-> Str("Software Engineer")] }

NoPage == [name |-> None, headline |-> None]

extract_profile_from_html(html, url) ==
    [LinkedInProfile(url) EXCEPT !["name"] = html.name,
                                 !["headline"] = html.headline]

\* The outcome of one attempt's request: a transport error, a response with
\* an error status, the anti-bot challenge page, or the profile page.
Outcomes == {"transport", "http_error", "challenge", "success"}

\* The except clause of the retry loop catches the outcome.  raise_for_status
\* of requests raises HTTPError, a RequestException; the one of httpx raises
\* HTTPStatusError, which is not a RequestError.
Caught(m, outcome) ==
    \/ outcome = "transport"
    \/ outcome = "http_error" /\ m = "basic"

\* "attempt < self.max_retries - 1"
li_RetriesLeft(att) == att < li_MAX_RETRIES - 1

\* The lines of a pasted profile; each is shorter than the 50 characters a
\* summary line needs.
Lines ==
    {"", " ", "Ada Lovelace", "Software Engineer", "Paris, France",
     "Skills: Python, TLA"}

\* line.strip()
li_strip(line) == IF line = " " THEN "" ELSE line

\* One of the headline keywords is in line.lower().
HeadlineLike(line) == line = "Software Engineer"

\* One of location_patterns matches at the start of the line.
LocationLike(line) == line \in {"Paris, France", "Skills: Python, TLA"}

\* What the skills patterns take from the line, split on the delimiters.
SkillsOf(line) ==
    IF line = "Skills: Python, TLA" THEN <<"Python", "TLA">> ELSE <<>>

RECURSIVE AllSkills(_, _)
AllSkills(lines, i) ==
    IF i > Len(lines) THEN <<>> ELSE SkillsOf(lines[i]) \o AllSkills(lines, i + 1)

\* parse_profile_text(profile_text).to_dict(), the text given by its lines.
parse_profile_text(profile_text) ==
    LET lines == SelectSeq([i \in 1..Len(profile_text) |-> li_strip(profile_text[i])],
                           LAMBDA l : l # "")
        early == { i \in 2..3 : i <= Len(lines) /\ HeadlineLike(lines[i]) }
        located == { i \in 1..Len(lines) : LocationLike(lines[i]) }
        Least(S) == CHOOSE i \in S : \A j \in S : i <= j
    IN  IF lines = <<>> THEN LinkedInProfile(None)
        ELSE [LinkedInProfile(None) EXCEPT
                 !["name"] = Str(lines[1]),
                 !["headline"] = IF early = {} THEN None
                                 ELSE Str(lines[Least(early)]),
                 !["location"] = IF located = {} THEN None
                                 ELSE Str(lines[Least(located)]),
                 !["skills"] = AllSkills(lines, 1)]

\* ------------------------------------------------------------------ state

VARIABLES
    sp_text,      \* SpecSplit: the text given to split_chunks
    sp_limit,     \* SpecSplit: the limit given to split_chunks
    sp_pc,        \* SpecSplit: "input", "split" or "resplit"
    sp_chunks,    \* SpecSplit: split_chunks(sp_text, sp_limit)
    sp_again,     \* SpecSplit: each returned segment split again
    kind,         \* the request: "company", "cv", "prompt", "audio", "batch",
                  \* or "local", /process_audio of the local-model server
    api_key,      \* GROQ_API_KEY is set
    chunk_limit,  \* CHUNK_CHAR_LIMIT
    target_words, \* the caller's target_words
    cv_input,     \* the raw text given to summarize_cv
    prompt,       \* the prompt given to process_prompt or the batch client
    whisper_ok,   \* the speech recognizer was loaded at startup
    upload,       \* the uploaded audio: its content type, whether empty
    abort_at,     \* requests sent when the caller gave the request up (-1: it has not)
    pc,           \* where the request is
    scrape_result,\* what scrape_website returned
    site_fetches, \* requests sent to the company's website
    raw_content,  \* the text after cleaning
    chunks,       \* the segments
    partials,     \* the labelled partial results
    llm_calls,    \* the calls of call_llm, in order
    requests,     \* the HTTP requests sent to the remote model, in order
    replies,      \* the outcomes of those requests, in order
    result,       \* the text returned to the caller
    http_status,  \* the status of the server's response (0: none yet, or no server)
    raised,       \* the exception that left the handler or client ("" if none)
    transcript,   \* what _transcribe returned
    tmp_files,    \* the temporary files that exist
    attempt,      \* call_groq_with_retries: the loop's attempt
    sleeps,       \* call_groq_with_retries: the delays slept, in ticks
    last_err,     \* call_groq_with_retries: last_err
    sent_at,      \* call_groq_with_retries: when each request was sent, in ticks
    task_kind,    \* SpecLoop: the handler of each request, "prompt" or "company"
    task_pc,      \* SpecLoop: where each request's handler is
    task_calls,   \* SpecLoop: the blocking calls each handler has made
    loop_owner,   \* SpecLoop: the request whose code holds the event loop (0: none)
    li_mode,      \* SpecLinkedin: "scrape" (both scraping wrappers) or "text"
    li_url,       \* the URL given to the scraping wrappers
    li_feed,      \* the outcome of each attempt's request
    li_page,      \* the page a successful request returns
    li_text,      \* the lines of the text given to parse_linkedin_text
    li_pc,        \* where each wrapper is
    li_attempt,   \* the retry loop's attempt, per method
    li_sent,      \* the requests sent, per method
    li_sleeps,    \* the delays slept, in seconds, per method
    li_raised,    \* the message of the exception the wrapper caught ("" if none)
    li_record     \* the dictionary each wrapper returned

splitVars == <<sp_text, sp_limit, sp_pc, sp_chunks, sp_again>>

inputVars ==
    <<kind, api_key, chunk_limit, target_words, cv_input, prompt, whisper_ok,
      upload, abort_at>>

pipeVars ==
    <<pc, scrape_result, site_fetches, raw_content, chunks, partials,
      llm_calls, requests, replies, result, http_status, raised>>

audioVars == <<transcript, tmp_files>>

retryVars == <<attempt, sleeps, last_err, sent_at>>

loopVars == <<task_kind, task_pc, task_calls, loop_owner>>

liVars ==
    <<li_mode, li_url, li_feed, li_page, li_text, li_pc, li_attempt, li_sent,
      li_sleeps, li_raised, li_record>>

vars ==
    <<splitVars, inputVars, pipeVars, audioVars, retryVars, loopVars, liVars>>

NoUpload == [content_type |-> "", empty |-> TRUE]

NoResult == <<"none">>
NoScrape == ScrapeResult(FALSE, <<>>, <<>>, <<>>, "")

\* ------------------------------------------------------- SpecSplit actions

\* No request is on the server's event loop.
LoopIdle ==
    /\ task_kind = <<>>
    /\ task_pc = <<>>
    /\ task_calls = <<>>
    /\ loop_owner = 0

\* No LinkedIn wrapper is called.
LiIdle ==
    /\ li_mode = "off"
    /\ li_url = NoUrl
    /\ li_feed = <<>>
    /\ li_page = NoPage
    /\ li_text = <<>>
    /\ li_pc = [c \in Callers |-> "off"]
    /\ li_attempt = [m \in Methods |-> 0]
    /\ li_sent = [m \in Methods |-> 0]
    /\ li_sleeps = [m \in Methods |-> <<>>]
    /\ li_raised = [c \in Callers |-> ""]
    /\ li_record = [c \in Callers |-> <<>>]

\* No single request is followed through its handler.
PipeRest ==
    /\ chunk_limit = 0
    /\ target_words = 0
    /\ cv_input = <<>>
    /\ prompt = <<>>
    /\ whisper_ok = FALSE
    /\ upload = NoUpload
    /\ abort_at = -1
    /\ pc = "off"
    /\ scrape_result = NoScrape
    /\ site_fetches = 0
    /\ raw_content = <<>>
    /\ chunks = <<>>
    /\ partials = <<>>
    /\ llm_calls = <<>>
    /\ requests = <<>>
    /\ replies = <<>>
    /\ result = NoResult
    /\ http_status = 0
    /\ raised = ""
    /\ transcript = <<>>
    /\ tmp_files = {}
    /\ attempt = 0
    /\ sleeps = <<>>
    /\ last_err = "None"
    /\ sent_at = <<>>

PipeIdle ==
    /\ LoopIdle
    /\ LiIdle
    /\ kind = "none"
    /\ api_key = FALSE
    /\ PipeRest

SplitInit ==
    /\ sp_text \in TextsUpTo(SplitChars, MaxLen)
    /\ sp_limit \in 0..MaxLimit
    /\ sp_pc = "input"
    /\ sp_chunks = <<>>
    /\ sp_again = <<>>
    /\ PipeIdle

\* chunks = split_chunks(text, limit)
Split ==
    /\ sp_pc = "input"
    /\ sp_chunks' = split_chunks(sp_text, sp_limit)
    /\ sp_pc' = "split"
    /\ UNCHANGED <<liVars, loopVars, sp_text, sp_limit, sp_again, inputVars, pipeVars, audioVars,
                   retryVars>>

\* [split_chunks(c, limit) for c in chunks]
Resplit ==
    /\ sp_pc = "split"
    /\ sp_again' = [i \in 1..Len(sp_chunks) |-> split_chunks(sp_chunks[i], sp_limit)]
    /\ sp_pc' = "resplit"
    /\ UNCHANGED <<liVars, loopVars, sp_text, sp_limit, sp_chunks, inputVars, pipeVars, audioVars,
                   retryVars>>

SplitNext == Split \/ Resplit

SpecSplit == SplitInit /\ [][SplitNext]_vars

\* split_chunks on longer texts of one letter and spaces, which give every
\* sequence of token lengths.
ScenarioInit ==
    /\ sp_text \in TextsUpTo(ScenarioChars, ScenarioLen)
    /\ sp_limit \in 1..ScenarioLimit
    /\ sp_pc = "input"
    /\ sp_chunks = <<>>
    /\ sp_again = <<>>
    /\ PipeIdle

SpecScenario == ScenarioInit /\ [][Split]_vars

\* ------------------------------------------------------ the orchestrators

SplitIdle ==
    /\ sp_text = <<>>
    /\ sp_limit = 0
    /\ sp_pc = "off"
    /\ sp_chunks = <<>>
    /\ sp_again = <<>>

Init ==
    /\ SplitIdle
    /\ LoopIdle
    /\ LiIdle
    /\ kind \in {"company", "cv", "prompt", "audio", "batch", "local"}
    /\ api_key \in BOOLEAN
    /\ chunk_limit \in (IF kind \in {"company", "cv"} THEN ChunkLimits ELSE {0})
    /\ target_words \in (IF kind \in {"company", "cv"} THEN TargetWords ELSE {0})
    /\ cv_input \in (IF kind = "cv" THEN CvTexts ELSE {<<>>})
    /\ prompt \in (IF kind = "prompt" THEN Prompts
                   ELSE IF kind = "batch" THEN {<<"h", "i">>} ELSE {<<>>})
    /\ whisper_ok \in (IF kind = "audio" THEN BOOLEAN ELSE {FALSE})
    /\ upload \in (IF kind \in {"audio", "local"} THEN Uploads ELSE {NoUpload})
    /\ abort_at = -1
    /\ pc = "start"
    /\ scrape_result = NoScrape
    /\ site_fetches = 0
    /\ raw_content = <<>>
    /\ chunks = <<>>
    /\ partials = <<>>
    /\ llm_calls = <<>>
    /\ requests = <<>>
    /\ replies = <<>>
    /\ result = NoResult
    /\ http_status = 0
    /\ raised = ""
    /\ transcript = <<>>
    /\ tmp_files = {}
    /\ attempt = 0
    /\ sleeps = <<>>
    /\ last_err = "None"
    /\ sent_at = <<>>

\* "success": True goes with the handler's response of status 200, False
\* with the one of status 500.
SuccessFlag(status) == status = 200

\* The status of a handler's JSONResponse; cv and the batch client are
\* command-line programs and answer no HTTP request.
OkStatusUnlessFailed ==
    IF \E j \in 1..Len(replies) : Failed(replies[j]) THEN 500
    ELSE IF kind \in {"company", "prompt", "audio", "local"} THEN 200 ELSE 0
OkStatus == IF kind \in {"company", "prompt", "audio", "local"} THEN 200 ELSE 0

\* return <value>
Return(value) ==
    /\ result' = value
    /\ http_status' = OkStatus
    /\ pc' = "done"
    /\ UNCHANGED raised

\* raise <exc>: the exception leaves the handler (the server answers with
\* status) or the client.
Raise(exc, status) ==
    /\ raised' = exc
    /\ http_status' = status
    /\ pc' = "done"
    /\ UNCHANGED result

\* call_llm with a credential, up to its HTTP request: the request is sent
\* and the caller waits for the response.
SendCall(call, waiting) ==
    /\ llm_calls' = Append(llm_calls, call)
    /\ requests' = Append(requests, call)
    /\ pc' = waiting
    /\ UNCHANGED <<result, http_status, raised>>

\* scrape_result = scrape_website(url)
Scrape ==
    /\ pc = "start"
    /\ kind = "company"
    /\ \E sr \in ScrapeResults : scrape_result' = sr
    /\ site_fetches' = site_fetches + 1
    /\ pc' = "scraped"
    /\ UNCHANGED <<liVars, loopVars, splitVars, inputVars, raw_content, chunks, partials,
                   llm_calls, requests, replies, result, http_status, raised,
                   audioVars, retryVars>>

\* analyze_company_website from the scrape to its first remote call or to
\* its return without one.
CompanyAnalyze ==
    /\ pc = "scraped"
    /\ kind = "company"
    /\ LET raw == clean_text(RawContent(scrape_result))
           cs == split_chunks(raw, chunk_limit)
       IN  IF ~scrape_result.success
           THEN /\ Return(ScrapeFailedText(scrape_result))
                /\ UNCHANGED <<raw_content, chunks, llm_calls, requests>>
           ELSE /\ raw_content' = raw
                /\ IF NoUsableContent(raw)
                   THEN /\ Return(Fixed(MSG_NO_CONTENT))
                        /\ UNCHANGED <<chunks, llm_calls, requests>>
                   ELSE IF NoApiKey(api_key)
                   THEN /\ Return(BasicInfo(scrape_result, raw))
                        /\ UNCHANGED <<chunks, llm_calls, requests>>
                   ELSE /\ chunks' = cs
                        /\ SendCall(ChunkCall(1, ChunkWords(kind, target_words, cs),
                                              cs[1]),
                                    "await_chunk")
    /\ UNCHANGED <<liVars, loopVars, splitVars, inputVars, scrape_result, site_fetches, partials,
                   replies, audioVars, retryVars>>

\* summarize_cv to its first remote call, or to its return when the text is
\* empty or when call_llm, without a credential, returns at once every time.
CvSummarize ==
    /\ pc = "start"
    /\ kind = "cv"
    /\ LET raw == cv_clean_text(cv_input)
           cs == cv_split_chunks(raw, chunk_limit)
           n == Len(cs)
           words == ChunkWords(kind, target_words, cs)
           ps == [i \in 1..n |-> PartialEntry(kind, i, n, NoKeyText(kind))]
       IN  /\ raw_content' = raw
           /\ IF NoUsableContent(raw)
              THEN /\ Return(Fixed(MSG_CV_EMPTY))
                   /\ UNCHANGED <<chunks, partials, llm_calls, requests>>
              ELSE /\ chunks' = cs
                   /\ IF ~NoApiKey(api_key)
                      THEN /\ SendCall(ChunkCall(1, words, cs[1]), "await_chunk")
                           /\ UNCHANGED partials
                      ELSE IF SingleChunk(cs)
                      THEN /\ llm_calls' = <<ChunkCall(1, words, cs[1])>>
                           /\ Return(NoKeyText(kind))
                           /\ UNCHANGED <<partials, requests>>
                      ELSE /\ partials' = ps
                           /\ llm_calls' =
                                  [i \in 1..n |-> ChunkCall(i, words, cs[i])]
                                  \o <<FusionCall(target_words, ps)>>
                           /\ Return(NoKeyText(kind))
                           /\ UNCHANGED requests
    /\ UNCHANGED <<liVars, loopVars, splitVars, inputVars, scrape_result, site_fetches, replies,
                   audioVars, retryVars>>

\* The response to a per-segment request arrives: call_llm returns, and the
\* orchestrator returns it (one segment), or labels it and calls call_llm
\* for the next segment or, after the last, for the fusion.
RecvChunk ==
    /\ pc = "await_chunk"
    /\ \E r \in Responses :
         LET text == LlmResult(kind, r)
             i == Len(partials) + 1
             n == Len(chunks)
             ps == Append(partials, PartialEntry(kind, i, n, text))
         IN  /\ replies' = Append(replies, r)
             /\ IF SingleChunk(chunks)
                THEN /\ Return(text)
                     /\ UNCHANGED <<partials, llm_calls, requests>>
                ELSE /\ partials' = ps
                     /\ IF MoreChunks(i, chunks)
                        THEN SendCall(ChunkCall(i + 1,
                                          ChunkWords(kind, target_words, chunks),
                                          chunks[i + 1]),
                                      "await_chunk")
                        ELSE SendCall(FusionCall(target_words, ps), "await_fusion")
    /\ UNCHANGED <<liVars, loopVars, splitVars, inputVars, scrape_result, site_fetches,
                   raw_content, chunks, audioVars, retryVars>>

\* The caller of /analyze_company closes its connection while a segment is
\* being analysed.  analyze_company is inside analyze_company_website, which
\* awaits nothing and looks at nothing of the connection: the handler goes
\* on as if nothing had happened, and only the moment is recorded.
Abort ==
    /\ kind = "company"
    /\ pc = "await_chunk"
    /\ abort_at = -1
    /\ abort_at' = Len(requests)
    /\ UNCHANGED <<liVars, loopVars, splitVars, kind, api_key, chunk_limit, target_words,
                   cv_input, prompt, whisper_ok, upload, pipeVars, audioVars,
                   retryVars>>

\* The response to the fusion request arrives: call_llm returns, and the
\* orchestrator returns its value.
RecvFusion ==
    /\ pc = "await_fusion"
    /\ \E r \in Responses :
         /\ replies' = Append(replies, r)
         /\ Return(LlmResult(kind, r))
    /\ UNCHANGED <<liVars, loopVars, splitVars, inputVars, scrape_result, site_fetches,
                   raw_content, chunks, partials, llm_calls, requests,
                   audioVars, retryVars>>

\* process_prompt: _call_groq_text(body.prompt) to its return without a
\* request, or to its HTTP request.
PromptHandle ==
    /\ pc = "start"
    /\ kind = "prompt"
    /\ llm_calls' = Append(llm_calls, TextCall(prompt))
    /\ IF EmptyPrompt(prompt)
       THEN /\ Return(Fixed(MSG_PROMPT_REQUIRED))
            /\ UNCHANGED requests
       ELSE IF NoApiKey(api_key)
       THEN /\ Return(NoKeyText(kind))
            /\ UNCHANGED requests
       ELSE /\ requests' = Append(requests, TextCall(prompt))
            /\ pc' = "await_text"
            /\ UNCHANGED <<result, http_status, raised>>
    /\ UNCHANGED <<liVars, loopVars, splitVars, inputVars, scrape_result, site_fetches,
                   raw_content, chunks, partials, replies, audioVars,
                   retryVars>>

\* process_audio after a successful transcoding, or without one: the
\* transcription, then the reply for an empty transcript or the call of
\* _call_groq_text; the finally block removes src and wav on a return.
Transcribe(files) ==
    \E heard \in Recognized :
        LET user_text == strip(heard)
        IN  /\ transcript' = user_text
            /\ IF user_text = <<>>
               THEN /\ Return(Fixed(MSG_NOT_UNDERSTOOD))
                    /\ tmp_files' = {}
                    /\ UNCHANGED <<llm_calls, requests>>
               ELSE /\ llm_calls' = Append(llm_calls, TextCall(user_text))
                    /\ IF NoApiKey(api_key)
                       THEN /\ Return(NoKeyText(kind))
                            /\ tmp_files' = {}
                            /\ UNCHANGED requests
                       ELSE /\ requests' = Append(requests, TextCall(user_text))
                            /\ tmp_files' = files
                            /\ pc' = "await_text"
                            /\ UNCHANGED <<result, http_status, raised>>

\* process_audio to its return, to the exception that leaves it, or to the
\* HTTP request of _call_groq_text.  A failed ffmpeg run raises out of
\* _transcode_to_wav_16k before wav is assigned: the finally block removes
\* src, and the file mkstemp created stays.
AudioHandle ==
    /\ pc = "start"
    /\ kind = "audio"
    /\ IF ~whisper_ok
       THEN /\ Raise("HTTPException", 503)
            /\ UNCHANGED <<llm_calls, requests, audioVars>>
       ELSE IF upload.empty
       THEN /\ Raise("HTTPException", 400)
            /\ UNCHANGED <<llm_calls, requests, audioVars>>
       ELSE IF NeedsTranscode(_guess_suffix(upload.content_type))
       THEN \/ /\ Raise("CalledProcessError", 500)
               /\ tmp_files' = {"dst"}
               /\ UNCHANGED <<llm_calls, requests, transcript>>
            \/ Transcribe({"src", "dst"})
       ELSE Transcribe({"src"})
    /\ UNCHANGED <<liVars, loopVars, splitVars, inputVars, scrape_result, site_fetches,
                   raw_content, chunks, partials, replies, retryVars>>

\* The response to the request of _call_groq_text arrives: the handler
\* returns its text; process_audio removes its temporary files.
RecvText ==
    /\ pc = "await_text"
    /\ \E r \in Responses :
         /\ replies' = Append(replies, r)
         /\ Return(LlmResult(kind, r))
    /\ tmp_files' = {}
    /\ UNCHANGED <<liVars, loopVars, splitVars, inputVars, scrape_result, site_fetches,
                   raw_content, chunks, partials, llm_calls, requests,
                   transcript, retryVars>>

\* process_audio of the local-model server (src/app.py), whole: the upload
\* is written to a temporary file; whisper decodes it, and raises when
\* ffmpeg cannot read it, as for an empty file; the local model is called
\* and the first item of list(...) of what it returned is the response
\* text; the finally block removes the temporary file.
LocalProcessAudio ==
    /\ pc = "start"
    /\ kind = "local"
    /\ \/ /\ Raise("RuntimeError", 500)
          /\ UNCHANGED transcript
       \/ /\ ~upload.empty
          /\ \E heard \in Recognized :
                /\ transcript' = strip(heard)
                /\ \/ \E llm_response_list \in LocalCompletions :
                         Return(LocalBody(strip(heard),
                                          IF llm_response_list # <<>>
                                          THEN llm_response_list[1] ELSE ""))
                   \/ Raise("ValueError", 500)
    /\ tmp_files' = {}
    /\ UNCHANGED <<liVars, loopVars, splitVars, inputVars, scrape_result,
                   site_fetches, raw_content, chunks, partials, llm_calls,
                   requests, replies, retryVars>>

\* call_groq_with_retries to its return without a credential, or to the
\* request of attempt 0.
BatchStart ==
    /\ pc = "start"
    /\ kind = "batch"
    /\ llm_calls' = Append(llm_calls, TextCall(prompt))
    /\ IF NoApiKey(api_key)
       THEN /\ Return(NoKeyText(kind))
            /\ UNCHANGED <<requests, sent_at>>
       ELSE /\ requests' = Append(requests, TextCall(prompt))
            /\ sent_at' = <<0>>
            /\ pc' = "await_batch"
            /\ UNCHANGED <<result, http_status, raised>>
    /\ UNCHANGED <<liVars, loopVars, splitVars, inputVars, scrape_result, site_fetches,
                   raw_content, chunks, partials, replies, audioVars,
                   attempt, sleeps, last_err>>

\* "await asyncio.sleep(delay); continue": the delay is slept, then the
\* loop sends the next attempt's request when the delay has passed, or ends
\* after the last attempt and the client returns its failure text.
SleepAndContinue(delay, err) ==
    /\ sleeps' = Append(sleeps, delay)
    /\ last_err' = err
    /\ IF NextAttemptInRange(attempt)
       THEN /\ attempt' = attempt + 1
            /\ requests' = Append(requests, TextCall(prompt))
            /\ sent_at' = Append(sent_at, sent_at[Len(sent_at)] + delay)
            /\ UNCHANGED <<pc, result, http_status, raised>>
       ELSE /\ Return(RetriesFailedText(err))
            /\ UNCHANGED <<attempt, requests, sent_at>>

\* The outcome of an attempt's exchange arrives.
RecvBatch ==
    /\ pc = "await_batch"
    /\ \E r \in BatchResponses :
         /\ replies' = Append(replies, r)
         /\ CASE r.kind = "status" /\ r.status = 429 ->
                     IF HasHeaderDelay(r)
                     THEN SleepAndContinue(r.seconds * TICKS, last_err)
                     ELSE \E jitter \in {0, MAX_JITTER} :
                              SleepAndContinue(_retry_delay(attempt, jitter),
                                               last_err)
              [] r.kind = "status" /\ r.status # 429 ->
                     IF ServerError(r.status) /\ RetriesLeft(attempt)
                     THEN \E jitter \in {0, MAX_JITTER} :
                              SleepAndContinue(_retry_delay(attempt, jitter),
                                               "HTTPStatusError")
                     ELSE /\ Return(BatchHttpErrorText(r))
                          /\ UNCHANGED <<requests, retryVars>>
              [] r.kind \in {"timeout", "connect"} ->
                     IF RetriesLeft(attempt)
                     THEN \E jitter \in {0, MAX_JITTER} :
                              SleepAndContinue(_retry_delay(attempt, jitter),
                                               r.kind)
                     ELSE /\ Return(NetworkErrorText(r.kind))
                          /\ UNCHANGED <<requests, retryVars>>
              [] r.kind = "ok" /\ r.json = "malformed" ->
                     /\ Raise("ValueError", 0)
                     /\ UNCHANGED <<requests, retryVars>>
              [] r.kind = "ok" /\ r.json = "nochoices" ->
                     /\ Raise("IndexError", 0)
                     /\ UNCHANGED <<requests, retryVars>>
              [] OTHER ->
                     /\ Return(IF strip(r.content) # <<>>
                               THEN ModelText(strip(r.content))
                               ELSE EmptyPlaceholder(kind))
                     /\ UNCHANGED <<requests, retryVars>>
    /\ UNCHANGED <<liVars, loopVars, splitVars, inputVars, scrape_result, site_fetches,
                   raw_content, chunks, partials, llm_calls, audioVars>>

Next ==
    \/ Scrape
    \/ CompanyAnalyze
    \/ CvSummarize
    \/ RecvChunk
    \/ Abort
    \/ RecvFusion
    \/ PromptHandle
    \/ AudioHandle
    \/ RecvText
    \/ LocalProcessAudio
    \/ BatchStart
    \/ RecvBatch

Spec == Init /\ [][Next]_vars

\* The retrying client alone.  The event loop runs its coroutine: every
\* exchange ends, by a response or by the request timeout, and every sleep
\* ends.
BatchInit == Init /\ kind = "batch"

BatchNext == BatchStart \/ RecvBatch

SpecBatch == BatchInit /\ [][BatchNext]_vars /\ WF_vars(BatchNext)

\* ------------------------------------------------ the server's event loop

\* The handlers run as coroutines on the one event loop of the server
\* process.  NumTasks requests have arrived; each is for /process_prompt,
\* with a prompt that is not blank, or for /analyze_company; the credential
\* is configured.
Tasks == 1..NumTasks

LoopInit ==
    /\ SplitIdle
    /\ LiIdle
    /\ kind = "server"
    /\ api_key = TRUE
    /\ PipeRest
    /\ task_kind \in [Tasks -> {"prompt", "company"}]
    /\ task_pc = [t \in Tasks |-> "queued"]
    /\ task_calls = [t \in Tasks |-> 0]
    /\ loop_owner = 0

\* The loop starts the handler of request t.  process_prompt runs to
\* "await client.post(...)" in _call_groq_text and is suspended there: the
\* loop is free.  analyze_company calls analyze_company_website, a function
\* that awaits nothing: the loop's thread is inside its first blocking
\* call, the fetch of the website.
Dispatch(t) ==
    /\ loop_owner = 0
    /\ task_pc[t] = "queued"
    /\ task_pc' = [task_pc EXCEPT ![t] = "in_flight"]
    /\ task_calls' = [task_calls EXCEPT ![t] = 1]
    /\ loop_owner' = IF task_kind[t] = "company" THEN t ELSE 0
    /\ UNCHANGED <<liVars, task_kind, splitVars, inputVars, pipeVars, audioVars,
                   retryVars>>

\* The response to the request of _call_groq_text arrives: the coroutine
\* of request t can be resumed.
Arrive(t) ==
    /\ task_kind[t] = "prompt"
    /\ task_pc[t] = "in_flight"
    /\ task_pc' = [task_pc EXCEPT ![t] = "ready"]
    /\ UNCHANGED <<liVars, task_kind, task_calls, loop_owner, splitVars, inputVars,
                   pipeVars, audioVars, retryVars>>

\* The loop resumes the coroutine of request t, and process_prompt returns
\* its response.
Resume(t) ==
    /\ loop_owner = 0
    /\ task_pc[t] = "ready"
    /\ task_pc' = [task_pc EXCEPT ![t] = "done"]
    /\ UNCHANGED <<liVars, task_kind, task_calls, loop_owner, splitVars, inputVars,
                   pipeVars, audioVars, retryVars>>

\* A blocking call of analyze_company_website returns (the fetch of the
\* website, or client.post of call_llm): the function makes its next call
\* of call_llm, or returns, analyze_company returns its response and the
\* loop is free.
BlockingReturn(t) ==
    /\ task_kind[t] = "company"
    /\ task_pc[t] = "in_flight"
    /\ loop_owner = t
    /\ \/ /\ task_calls[t] < 1 + LoopCalls
          /\ task_calls' = [task_calls EXCEPT ![t] = @ + 1]
          /\ UNCHANGED <<task_pc, loop_owner>>
       \/ /\ task_pc' = [task_pc EXCEPT ![t] = "done"]
          /\ loop_owner' = 0
          /\ UNCHANGED task_calls
    /\ UNCHANGED <<liVars, task_kind, splitVars, inputVars, pipeVars, audioVars,
                   retryVars>>

LoopNext ==
    \E t \in Tasks : Dispatch(t) \/ Arrive(t) \/ Resume(t) \/ BlockingReturn(t)

SpecLoop == LoopInit /\ [][LoopNext]_vars

\* ------------------------------------------------ the LinkedIn wrappers

\* Either the two scraping wrappers are called with one URL and meet the
\* same outcome at each attempt, or parse_linkedin_text is called.
LiInit ==
    /\ SplitIdle
    /\ LoopIdle
    /\ kind = "none"
    /\ api_key = FALSE
    /\ PipeRest
    /\ li_mode \in {"scrape", "text"}
    /\ li_url \in (IF li_mode = "scrape" THEN Urls ELSE {NoUrl})
    /\ li_feed \in (IF li_mode = "scrape" THEN [1..li_MAX_RETRIES -> Outcomes]
                     ELSE {<<>>})
    /\ li_page \in (IF li_mode = "scrape" THEN Pages ELSE {NoPage})
    /\ li_text \in (IF li_mode = "text" THEN TextsUpTo(Lines, MaxLines) ELSE {<<>>})
    /\ li_pc = [c \in Callers |->
                  IF (c = "text") <=> (li_mode = "text") THEN "start" ELSE "off"]
    /\ li_attempt = [m \in Methods |-> 0]
    /\ li_sent = [m \in Methods |-> 0]
    /\ li_sleeps = [m \in Methods |-> <<>>]
    /\ li_raised = [c \in Callers |-> ""]
    /\ li_record = [c \in Callers |-> <<>>]

\* The wrapper c returns the dictionary rec; msg is str(e) of the exception
\* it caught, "" when it caught none.
Finish(c, rec, msg) ==
    /\ li_record' = [li_record EXCEPT ![c] = rec]
    /\ li_raised' = [li_raised EXCEPT ![c] = msg]
    /\ li_pc' = [li_pc EXCEPT ![c] = "done"]

\* The scraping method raises; "except Exception as e" of its wrapper
\* returns the dictionary with the error.
Fail(m, msg) == Finish(m, ErrorRecord(msg, None, UrlValue(li_url)), msg)

\* scrape_linkedin_profile(_async) to the ValueError of an invalid URL, or
\* to the request of attempt 0.
LiStart(m) ==
    /\ li_pc[m] = "start"
    /\ IF ~is_valid_linkedin_url(li_url)
       THEN /\ Fail(m, "Invalid LinkedIn URL")
            /\ UNCHANGED li_sent
       ELSE /\ li_sent' = [li_sent EXCEPT ![m] = 1]
            /\ li_pc' = [li_pc EXCEPT ![m] = "await"]
            /\ UNCHANGED <<li_raised, li_record>>
    /\ UNCHANGED <<li_mode, li_url, li_feed, li_page, li_text, li_attempt,
                   li_sleeps, splitVars, inputVars, pipeVars, audioVars,
                   retryVars, loopVars>>

\* The outcome of the attempt's request arrives: the profile is extracted
\* and returned, or an exception leaves the method, or the except clause
\* sleeps and the loop sends the next attempt's request, or, at the last
\* attempt, raises.
LiRecv(m) ==
    /\ li_pc[m] = "await"
    /\ LET outcome == li_feed[li_attempt[m] + 1]
       IN  CASE outcome = "success" ->
                    /\ Finish(m, extract_profile_from_html(li_page, UrlValue(li_url)),
                              "")
                    /\ UNCHANGED <<li_attempt, li_sent, li_sleeps>>
             [] outcome = "challenge" ->
                    /\ Fail(m, "LinkedIn anti-bot challenge detected")
                    /\ UNCHANGED <<li_attempt, li_sent, li_sleeps>>
             [] Caught(m, outcome) /\ li_RetriesLeft(li_attempt[m]) ->
                    /\ li_sleeps' =
                           [li_sleeps EXCEPT
                               ![m] = Append(@, DEFAULT_RETRY_DELAY * (li_attempt[m] + 1))]
                    /\ li_attempt' = [li_attempt EXCEPT ![m] = @ + 1]
                    /\ li_sent' = [li_sent EXCEPT ![m] = @ + 1]
                    /\ UNCHANGED <<li_pc, li_raised, li_record>>
             [] Caught(m, outcome) /\ ~li_RetriesLeft(li_attempt[m]) ->
                    /\ Fail(m, "Failed to scrape profile after attempts")
                    /\ UNCHANGED <<li_attempt, li_sent, li_sleeps>>
             [] OTHER ->
                    /\ Fail(m, "HTTPStatusError")
                    /\ UNCHANGED <<li_attempt, li_sent, li_sleeps>>
    /\ UNCHANGED <<li_mode, li_url, li_feed, li_page, li_text, splitVars,
                   inputVars, pipeVars, audioVars, retryVars, loopVars>>

\* parse_linkedin_text(profile_text)
ParseText ==
    /\ li_pc["text"] = "start"
    /\ Finish("text", parse_profile_text(li_text), "")
    /\ UNCHANGED <<li_mode, li_url, li_feed, li_page, li_text, li_attempt,
                   li_sent, li_sleeps, splitVars, inputVars, pipeVars,
                   audioVars, retryVars, loopVars>>

LiNext ==
    \/ \E m \in Methods : LiStart(m) \/ LiRecv(m)
    \/ ParseText

SpecLinkedin == LiInit /\ [][LiNext]_vars

\* ------------------------------------------------- claims on split_chunks

\* The tokens of all segments, in segment order.
RECURSIVE SegmentTokens(_)
SegmentTokens(segs) ==
    IF segs = <<>> THEN <<>>
    ELSE str_split(segs[1]) \o SegmentTokens(Tail(segs))

\* split_chunks has run on a text longer than the limit.
SplitLong == sp_pc # "input" /\ Len(sp_text) > sp_limit

\* A segment that is exactly one token longer than the limit.
OversizedToken(seg, limit) == Len(seg) > limit /\ str_split(seg) = <<seg>>

\* C1: for a text longer than the limit and a limit >= 1, every segment has
\* length <= limit unless it is exactly one whitespace-delimited token that
\* is itself longer than the limit; a token longer than the limit is always
\* the only token of its segment.
C1_SegmentsWithinLimit ==
    (SplitLong /\ sp_limit >= 1) =>
        \A i \in 1..Len(sp_chunks) :
            /\ Len(sp_chunks[i]) <= sp_limit \/ OversizedToken(sp_chunks[i], sp_limit)
            /\ \A k \in 1..Len(str_split(sp_chunks[i])) :
                   Len(str_split(sp_chunks[i])[k]) > sp_limit
                       => str_split(sp_chunks[i]) = <<sp_chunks[i]>>

\* A split with an oversized token alone in its segment, and a segment of
\* several tokens exactly as long as the limit.
C1_Witness ==
    /\ SplitLong /\ sp_limit >= 2
    /\ \E i \in 1..Len(sp_chunks) : OversizedToken(sp_chunks[i], sp_limit)
    /\ \E j \in 1..Len(sp_chunks) :
           /\ Len(sp_chunks[j]) = sp_limit
           /\ Len(str_split(sp_chunks[j])) >= 2

\* C2: split_chunks is greedy: a segment is closed only when appending the
\* first token of the next segment, with one separating space, would make
\* it longer than the limit; this holds for the first segment as for the
\* later ones.
C2_Greedy ==
    SplitLong =>
        \A i \in 1..(Len(sp_chunks) - 1) :
            Len(sp_chunks[i]) + 1 + Len(str_split(sp_chunks[i + 1])[1]) > sp_limit

\* C3: for a text longer than the limit the segments joined by single
\* spaces hold exactly the tokens of the input, in the input's order: none
\* lost, duplicated, split or moved; every segment is its own tokens joined
\* by single spaces.
C3_TokensPreserved ==
    SplitLong =>
        /\ str_split(join(<<" ">>, sp_chunks)) = str_split(sp_text)
        /\ SegmentTokens(sp_chunks) = str_split(sp_text)
        /\ \A i \in 1..Len(sp_chunks) :
               sp_chunks[i] = join(<<" ">>, str_split(sp_chunks[i]))

\* A split into several segments of a text with different tokens and with
\* whitespace that the split normalises.
C3_Witness ==
    /\ SplitLong
    /\ Len(sp_chunks) >= 2
    /\ Len(str_split(sp_text)) >= 3
    /\ \E i, k \in 1..Len(str_split(sp_text)) :
           str_split(sp_text)[i] # str_split(sp_text)[k]
    /\ join(<<" ">>, sp_chunks) # sp_text

\* C4: for a text no longer than the limit split_chunks returns exactly one
\* segment equal to the input, and splitting that segment again with the
\* same limit returns the same single segment.
C4_ShortTextSingleSegment ==
    /\ (sp_pc # "input" /\ Len(sp_text) <= sp_limit) => sp_chunks = <<sp_text>>
    /\ (sp_pc = "resplit" /\ Len(sp_text) <= sp_limit) => sp_again = <<sp_chunks>>

\* A text exactly as long as the limit, with whitespace a tokenisation
\* would drop, split and split again.
C4_Witness ==
    /\ sp_pc = "resplit"
    /\ Len(sp_text) = sp_limit
    /\ sp_limit >= 2
    /\ sp_text[1] = " "
    /\ sp_again = << <<sp_text>> >>

\* ------------------------------------------------ claims on the pipeline

Done == pc = "done"
Orchestrated == kind \in {"company", "cv"}

\* The calls of call_llm made for the fusion.
FusionCalls == { j \in 1..Len(llm_calls) : llm_calls[j].op = "fusion" }

\* The text left after cleaning, whether or not the orchestrator kept it.
CleanedInput ==
    IF kind = "cv" THEN cv_clean_text(cv_input)
    ELSE clean_text(RawContent(scrape_result))

\* The orchestrator acquired its text: summarize_cv is given it, and
\* analyze_company_website has scraped the page.
Acquired ==
    \/ kind = "cv" /\ pc # "start"
    \/ kind = "company" /\ pc \notin {"start", "scraped"} /\ scrape_result.success

\* C5: in analyze_company_website and summarize_cv the fusion call is made
\* if and only if the chunker returned more than one segment; with exactly
\* one segment the returned value is the result of the single per-segment
\* call, unmodified, and no second call is made.
C5_FusionIffSeveralSegments ==
    Orchestrated =>
        /\ FusionCalls # {} => Len(chunks) > 1
        /\ (Done /\ Len(chunks) > 1) =>
               /\ FusionCalls = {Len(chunks) + 1}
               /\ Len(llm_calls) = Len(chunks) + 1
        /\ (Done /\ Len(chunks) = 1) =>
               /\ Len(llm_calls) = 1
               /\ llm_calls[1] = ChunkCall(1, target_words, chunks[1])
               /\ partials = <<>>
               /\ Len(requests) <= 1
               /\ result = IF requests = <<>> THEN NoKeyText(kind)
                           ELSE LlmResult(kind, replies[1])

\* An analysis of a page that fits one segment has returned the model's
\* text after one request.
C5_Witness ==
    /\ kind = "company" /\ Done
    /\ Len(chunks) = 1
    /\ Len(requests) = 1
    /\ result = ModelText(<<"o", "k">>)

\* C6: the per-segment requests are sent one at a time in segment order
\* 1..N, each only after the one before has returned; the fusion request is
\* sent only when all N partial results exist, and then partial i carries
\* the label i/N in position i of the merged block.
C6_SequentialThenFusion ==
    Orchestrated =>
        /\ Len(requests) - Len(replies) \in {0, 1}
        /\ \A j \in 1..Len(requests) :
               /\ requests[j].op = "chunk" =>
                      /\ requests[j].idx = j
                      /\ j <= Len(chunks)
                      /\ requests[j].chunk = chunks[j]
                      /\ Len(chunks) > 1 => Len(partials) >= j - 1
               /\ requests[j].op = "fusion" =>
                      /\ j = Len(chunks) + 1
                      /\ Len(replies) >= Len(chunks)
                      /\ Len(partials) = Len(chunks)
                      /\ requests[j].merged = partials
                      /\ \A i \in 1..Len(chunks) :
                             partials[i].label =
                                 <<IF kind = "cv" THEN "Partie" ELSE "Segment",
                                   i, Len(chunks)>>
        /\ requests # <<>> =>
               \A j \in 1..Len(partials) : Len(replies) >= j /\ requests[j].idx = j

\* The fusion request of an analysis over three segments is in flight.
C6_Witness ==
    /\ kind = "company"
    /\ pc = "await_fusion"
    /\ Len(chunks) = 3
    /\ Len(requests) = 4 /\ Len(replies) = 3
    /\ partials[3].label = <<"Segment", 3, 3>>

\* The requests an analysis over the segments has sent when it returns.
ExpectedRequests == IF Len(chunks) = 1 THEN 1 ELSE Len(chunks) + 1

\* C7 as claimed: call_llm sends at most one request per call and never
\* retries, so an analysis over N segments sends exactly 1 request when
\* N = 1 and exactly N + 1 when N > 1, whatever requests fail.
C7_RequestCount ==
    (Orchestrated /\ Done /\ chunks # <<>>) =>
        /\ Len(requests) <= Len(llm_calls)
        /\ Len(requests) = ExpectedRequests

\* C7 as amended: with a credential configured every call of call_llm sends
\* exactly one request and none is retried, so an analysis over N segments
\* sends exactly 1 request when N = 1 and exactly N + 1 when N > 1, whatever
\* requests fail; without a credential call_llm sends no request.
C7_RequestCountWithKey ==
    Orchestrated =>
        /\ api_key => requests = llm_calls
        /\ ~api_key => requests = <<>>
        /\ (Done /\ chunks # <<>> /\ api_key) => Len(requests) = ExpectedRequests

\* An analysis over three segments has returned after four requests, of
\* which some failed.
C7_Witness ==
    /\ Orchestrated /\ Done /\ api_key
    /\ Len(chunks) = 3
    /\ Len(requests) = 4
    /\ Failed(replies[1]) /\ Failed(replies[4]) /\ ~Failed(replies[2])

\* The text call_llm must return for a failed exchange.
ErrorTextOf(r) ==
    IF r.kind = "status"
    THEN HttpErrorText(r.status,
             IF r.body < ERROR_BODY_CHARS THEN r.body ELSE ERROR_BODY_CHARS)
    ELSE NetworkErrorText(r.kind)

\* The exchange returned a completion with a text.
NormalReply(r) == r.kind = "ok" /\ r.json = "content" /\ strip(r.content) # <<>>

\* C8: when the request for segment k of N > 1 fails by timeout, transport
\* error or error status, the pipeline goes on: the partial of segment k is
\* the client's error text, every other segment is still sent and gives
\* its normal partial, and the fusion is requested over all N partials.
C8_FailedSegmentAbsorbed ==
    (Orchestrated /\ api_key /\ Len(chunks) > 1) =>
        /\ raised = ""
        /\ \A k \in 1..Len(partials) :
               /\ Failed(replies[k]) => partials[k].text = ErrorTextOf(replies[k])
               /\ NormalReply(replies[k]) =>
                      partials[k].text = ModelText(strip(replies[k].content))
               /\ Len(requests) >= k + 1
        /\ Done =>
               /\ Len(partials) = Len(chunks)
               /\ \A j \in 1..Len(chunks) :
                      requests[j].op = "chunk" /\ requests[j].chunk = chunks[j]
               /\ requests[Len(chunks) + 1] = FusionCall(target_words, partials)
               /\ Len(replies) = Len(chunks) + 1

\* The request for segment 2 of 3 timed out, segments 1 and 3 gave their
\* texts, and the fusion has run over the three partials.
C8_Witness ==
    /\ kind = "company" /\ Done /\ api_key
    /\ Len(chunks) = 3
    /\ replies[2].kind = "timeout"
    /\ partials[1].text = ModelText(<<"o", "k">>)
    /\ partials[2].text = NetworkErrorText("timeout")
    /\ partials[3].text = ModelText(<<"o", "k">>)
    /\ requests[4].merged = partials
    /\ result = ModelText(<<"o", "k">>)

\* The request kinds with a textual answer that C9 names.
Answering == kind \in {"prompt", "audio", "company", "batch"}

\* C9 as claimed: without a credential every textual response (prompt
\* endpoint, audio endpoint, website analysis, retrying batch client) is the
\* fixed degraded-mode message and no request is sent to the remote model.
C9_AlwaysDegradedMessage ==
    (Answering /\ ~api_key) =>
        /\ requests = <<>>
        /\ (Done /\ raised = "") => result = NoKeyText(kind)

\* C9 as amended: without a credential no request is sent to the remote
\* model.  The prompt endpoint answers its degraded-mode message for a
\* prompt that is not blank and its prompt-request message for a blank one;
\* the audio endpoint answers the degraded-mode message for a transcript
\* that is not empty and its not-understood reply for an empty one; the
\* batch client returns its own degraded-mode message; website analysis
\* still fetches the site and returns the scrape failure text, the
\* no-content message or the information extracted from the page.
C9_NoKeyNoModelRequest ==
    (Answering /\ ~api_key) =>
        /\ requests = <<>>
        /\ pc \in {"start", "scraped", "done"}
        /\ (Done /\ raised = "") =>
               CASE kind = "prompt" ->
                        result = IF strip(prompt) = <<>>
                                 THEN Fixed(MSG_PROMPT_REQUIRED)
                                 ELSE Fixed(MSG_DEGRADED_APP)
                 [] kind = "audio" ->
                        result = IF transcript = <<>>
                                 THEN Fixed(MSG_NOT_UNDERSTOOD)
                                 ELSE Fixed(MSG_DEGRADED_APP)
                 [] kind = "batch" -> result = Fixed(MSG_DEGRADED_BATCH)
                 [] OTHER ->
                        /\ site_fetches = 1
                        /\ result =
                               IF ~scrape_result.success
                               THEN ScrapeFailedText(scrape_result)
                               ELSE IF CleanedInput = <<>>
                               THEN Fixed(MSG_NO_CONTENT)
                               ELSE BasicInfo(scrape_result, CleanedInput)

\* Without a credential a website analysis has fetched the site and
\* returned the information extracted from the page.
C9_Witness ==
    /\ kind = "company" /\ ~api_key /\ Done
    /\ site_fetches = 1
    /\ requests = <<>>
    /\ result[1] = "basic_info"
    /\ Len(result[4]) > MIN_LINE_CHARS

\* C10: when the acquired text is empty after cleaning, the orchestrator
\* returns its fixed no-usable-content message and calls the remote model
\* not once.
C10_EmptyTextNoModelCall ==
    (Orchestrated /\ Acquired /\ CleanedInput = <<>>) =>
        /\ Done
        /\ result = Fixed(IF kind = "cv" THEN MSG_CV_EMPTY ELSE MSG_NO_CONTENT)
        /\ llm_calls = <<>>
        /\ requests = <<>>

\* With a credential, a page whose only content is too short to survive
\* the cleaning was answered with the no-content message.
C10_Witness ==
    /\ kind = "company" /\ api_key /\ Done
    /\ scrape_result.success
    /\ scrape_result.content # <<>>
    /\ raw_content = <<>>
    /\ result = Fixed(MSG_NO_CONTENT)
    /\ llm_calls = <<>>

\* ------------------------------------------- claims on the remote client

\* The kinds of request served by the core clients: call_llm of company and
\* cv, _call_groq_text of the server.
CoreClient == kind \in {"company", "cv", "prompt", "audio"}

\* What the call that received reply j returned to its caller: the text of
\* partial j in an analysis over several segments, and otherwise, as for
\* the fusion call, the result.
ReturnedOf(j) == IF j <= Len(partials) THEN partials[j].text ELSE result

\* The returned value is a string a client builds.
IsString(t) == t[1] \in {"fixed", "text", "http", "neterr"}

\* C11: the core client never raises past its boundary: for every outcome
\* of the HTTP exchange (connection failure, timeout, error status, 2xx with
\* a malformed or choice-less body) call_llm and _call_groq_text return a
\* string, and for an error status the string carries the status code and
\* at most the first 200 characters of the response body.
C11_ClientNeverRaises ==
    CoreClient =>
        /\ replies # <<>> => raised = ""
        /\ Len(requests) - Len(replies) \in {0, 1}
        /\ Len(requests) = Len(replies) => (requests = <<>> \/ Done)
        /\ \A j \in 1..Len(replies) :
               /\ IsString(ReturnedOf(j))
               /\ replies[j].kind = "status" =>
                      /\ ReturnedOf(j)[1] = "http"
                      /\ ReturnedOf(j)[2] = replies[j].status
                      /\ ReturnedOf(j)[3] <= ERROR_BODY_CHARS
                      /\ ReturnedOf(j)[3] <= replies[j].body
                      /\ ReturnedOf(j)[3] = ERROR_BODY_CHARS
                             \/ ReturnedOf(j)[3] = replies[j].body
               /\ replies[j].kind \in {"timeout", "connect"} =>
                      ReturnedOf(j) = NetworkErrorText(replies[j].kind)
               /\ (replies[j].kind = "ok"
                      /\ replies[j].json \in {"malformed", "nochoices"}) =>
                      ReturnedOf(j)[1] = "neterr"

\* An analysis over three segments has returned although its requests met
\* an error status with a long body, a malformed body, a timeout and an
\* empty choices list.
C11_Witness ==
    /\ kind = "company" /\ Done /\ raised = ""
    /\ Len(replies) = 4
    /\ replies[1].kind = "status" /\ replies[1].body > ERROR_BODY_CHARS
    /\ partials[1].text = HttpErrorText(500, ERROR_BODY_CHARS)
    /\ replies[2].json = "malformed"
    /\ replies[3].kind = "timeout"
    /\ replies[4].json = "nochoices"
    /\ result = NetworkErrorText("index")

\* The returned string is empty or whitespace only.  An HTTP error text, a
\* network error text and a text built from a scraped page start with a
\* fixed prefix.
Blank(t) ==
    CASE t[1] = "text" -> strip(t[2]) = <<>>
      [] t[1] = "fixed" -> t[2] = ""
      [] OTHER -> FALSE

\* The 2xx reply carries no text: it has no choices key, or the content of
\* its first choice is empty or whitespace only.
EmptyCompletion(r) ==
    /\ r.kind = "ok"
    /\ \/ r.json = "absent"
       \/ r.json = "content" /\ strip(r.content) = <<>>

\* C12 as claimed: the text the remote client returns is never empty: when
\* the first completion choice is missing, empty or whitespace only the
\* fixed placeholder is returned, and every failure path returns a message
\* that is not empty.
C12_PlaceholderWhenChoiceMissing ==
    CoreClient =>
        \A j \in 1..Len(replies) :
            /\ ~Blank(ReturnedOf(j))
            /\ (EmptyCompletion(replies[j])
                   \/ (replies[j].kind = "ok" /\ replies[j].json = "nochoices")) =>
                   ReturnedOf(j) = EmptyPlaceholder(kind)

\* C12 as amended: the text the remote client returns is never empty: when
\* the reply has no choices key, or the content of its first choice is
\* empty or whitespace only, the fixed placeholder is returned; when the
\* choices list is empty the network error text is returned; every failure
\* path returns a message that is not empty; so every partial result and
\* every final result is non-blank.
C12_NeverBlank ==
    CoreClient =>
        /\ \A j \in 1..Len(replies) :
               /\ ~Blank(ReturnedOf(j))
               /\ EmptyCompletion(replies[j]) =>
                      ReturnedOf(j) = EmptyPlaceholder(kind)
               /\ (replies[j].kind = "ok" /\ replies[j].json = "nochoices") =>
                      ReturnedOf(j) = NetworkErrorText("index")
               /\ (replies[j].kind = "ok" /\ replies[j].json = "content"
                      /\ ~EmptyCompletion(replies[j])) =>
                      ReturnedOf(j) = ModelText(strip(replies[j].content))
        /\ \A i \in 1..Len(partials) : ~Blank(partials[i].text)
        /\ (Done /\ raised = "") => ~Blank(result)

\* An analysis over three segments has met a reply without choices key, a
\* whitespace-only content and an empty choices list, and has returned the
\* model's text.
C12_Witness ==
    /\ kind = "company" /\ Done
    /\ Len(replies) = 4
    /\ replies[1].json = "absent"
    /\ partials[1].text = Fixed(MSG_EMPTY_COMPANY)
    /\ replies[2].content = <<" ">>
    /\ partials[2].text = Fixed(MSG_EMPTY_COMPANY)
    /\ replies[3].json = "nochoices"
    /\ partials[3].text = NetworkErrorText("index")
    /\ result = ModelText(<<"o", "k">>)

\* ------------------------------------------------ claims on word budgets

\* max(50, floor(T * 0.7 / N)) in exact arithmetic.
ExactBudget(target, n) ==
    IF (7 * target) \div (10 * n) > MIN_CHUNK_WORDS
    THEN (7 * target) \div (10 * n)
    ELSE MIN_CHUNK_WORDS

\* C13: for every target word count T, zero and negative ones included, and
\* every segment count N >= 2, each per-segment request of
\* analyze_company_website carries the word budget
\* max(50, floor(T * 0.7 / N)), which is never below 50, and the fusion
\* request carries the caller's T.
C13_PerSegmentBudget ==
    (kind = "company" /\ Len(chunks) >= 2) =>
        \A j \in 1..Len(requests) :
            /\ requests[j].op = "chunk" =>
                   /\ requests[j].words = ExactBudget(target_words, Len(chunks))
                   /\ requests[j].words >= MIN_CHUNK_WORDS
            /\ requests[j].op = "fusion" => requests[j].words = target_words

\* ---------------------------------------- claims on the 12,000 / 5,000 split

\* The text is its tokens joined by single spaces, as clean_text leaves it.
SingleSpaced(t) == t # <<>> /\ t = join(<<" ">>, str_split(t))

\* No token of the text is longer than w.
TokensWithin(t, w) == \A i \in 1..Len(str_split(t)) : Len(str_split(t)[i]) <= w

\* C14 as claimed: a text of 12,000 characters split with limit 5,000, that
\* is a text 12/5 as long as the limit, yields exactly 3 segments whatever
\* the lengths of its tokens.
C14_AlwaysThreeSegments ==
    (sp_pc = "split" /\ 5 * Len(sp_text) = 12 * sp_limit) =>
        Len(sp_chunks) = 3

\* C14 as amended: a single-spaced text of L characters, L > 2 * limit + 1,
\* yields exactly 3 segments when none of its tokens is longer than
\* (3 * limit + 1 - L) / 2; for L = 12,000 and limit = 5,000 that is 1,500
\* characters.
C14_ThreeSegmentsShortTokens ==
    (/\ sp_pc = "split"
     /\ SingleSpaced(sp_text)
     /\ Len(sp_text) > 2 * sp_limit + 1
     /\ \E w \in 1..sp_limit :
            /\ 2 * w <= 3 * sp_limit + 1 - Len(sp_text)
            /\ TokensWithin(sp_text, w)) =>
        Len(sp_chunks) = 3

\* A text 12/5 as long as the limit, of tokens of different lengths short
\* enough, was split into 3 segments.
C14_Witness ==
    /\ sp_pc = "split"
    /\ 5 * Len(sp_text) = 12 * sp_limit
    /\ SingleSpaced(sp_text)
    /\ TokensWithin(sp_text, 2) /\ ~TokensWithin(sp_text, 1)
    /\ 2 * 2 <= 3 * sp_limit + 1 - Len(sp_text)
    /\ Len(sp_chunks) = 3

\* ------------------------------------------- claims on the retrying client

BatchClient == kind = "batch"

\* The value is a string call_groq_with_retries builds.
IsBatchString(t) ==
    t[1] \in {"fixed", "text", "http", "neterr", "retries_failed"}

\* The last exchange ended in a 2xx response whose body is not JSON or has
\* an empty choices list.
LastReplyUnreadable ==
    /\ replies # <<>>
    /\ replies[Len(replies)].kind = "ok"
    /\ replies[Len(replies)].json \in {"malformed", "nochoices"}

ClientError(status) == 400 <= status /\ status < 500 /\ status # 429

\* d ticks is min(cap, 1.5 ** att + jitter) for a jitter of 0 to 0.5 seconds.
IsBackoff(d, att) ==
    LET power == (TICKS * Pow(3, att)) \div Pow(2, att)
    IN  \/ d = DELAY_CAP /\ power + MAX_JITTER >= DELAY_CAP
        \/ d < DELAY_CAP /\ power <= d /\ d <= power + MAX_JITTER

\* C16: in call_groq_with_retries a response with a 4xx status other than
\* 429 ends the call at once: no further request is sent, no sleep follows
\* and the HTTP error string is returned; a 5xx response is followed by a
\* backoff sleep and another request as long as fewer than MAX_RETRIES
\* retries have been made, and a 5xx on the last attempt returns the HTTP
\* error string.
C16_ClientErrorEndsServerErrorRetries ==
    BatchClient =>
        \A j \in 1..Len(replies) :
            /\ (replies[j].kind = "status" /\ ClientError(replies[j].status)) =>
                   /\ j = Len(replies) /\ j = Len(requests)
                   /\ Len(sleeps) = j - 1
                   /\ Done /\ raised = ""
                   /\ result = <<"http", replies[j].status,
                                 IF replies[j].body < BATCH_ERROR_BODY_CHARS
                                 THEN replies[j].body
                                 ELSE BATCH_ERROR_BODY_CHARS>>
            /\ (replies[j].kind = "status" /\ replies[j].status >= 500
                   /\ j <= MAX_RETRIES) =>
                   /\ Len(sleeps) >= j /\ IsBackoff(sleeps[j], j - 1)
                   /\ Len(requests) >= j + 1
            /\ (replies[j].kind = "status" /\ replies[j].status >= 500
                   /\ j = MAX_RETRIES + 1) =>
                   /\ j = Len(requests)
                   /\ Len(sleeps) = MAX_RETRIES
                   /\ Done /\ raised = ""
                   /\ result = <<"http", replies[j].status, BATCH_ERROR_BODY_CHARS>>

\* A server error was retried after a backoff sleep, and the 404 that
\* answered the retry ended the call with its error text.
C16_Witness ==
    /\ BatchClient /\ Done
    /\ Len(replies) = 2 /\ Len(requests) = 2
    /\ replies[1].status = 500
    /\ replies[2].status = 404
    /\ Len(sleeps) = 1 /\ sleeps[1] = TICKS + MAX_JITTER
    /\ result = <<"http", 404, 0>>

\* C17: on a 429 response call_groq_with_retries waits before the next
\* request for exactly the Retry-After delay when that header is present
\* and numeric, and otherwise for the backoff delay
\* min(cap, base ** attempt + jitter) of the current attempt; the next
\* request is never sent before that wait has passed.
C17_RateLimitWait ==
    BatchClient =>
        /\ Len(sent_at) = Len(requests)
        /\ \A j \in 1..Len(replies) :
               (replies[j].kind = "status" /\ replies[j].status = 429) =>
                   /\ Len(sleeps) >= j
                   /\ replies[j].retry_after = "numeric" =>
                          sleeps[j] = replies[j].seconds * TICKS
                   /\ replies[j].retry_after # "numeric" =>
                          IsBackoff(sleeps[j], j - 1)
                   /\ Len(requests) > j =>
                          sent_at[j + 1] >= sent_at[j] + sleeps[j]

\* Three rate-limit responses, with a numeric Retry-After, without the
\* header and with one that is no number, were each waited for before the
\* fourth request.
C17_Witness ==
    /\ BatchClient
    /\ Len(requests) = 4 /\ Len(replies) = 3
    /\ replies[1].retry_after = "numeric" /\ sleeps[1] = 7 * TICKS
    /\ replies[2].status = 429 /\ replies[2].retry_after = "absent"
    /\ sleeps[2] = (3 * TICKS) \div 2 + MAX_JITTER
    /\ replies[3].status = 429 /\ replies[3].retry_after = "invalid"
    /\ sleeps[3] = (9 * TICKS) \div 4
    /\ sent_at[4] = sleeps[1] + sleeps[2] + sleeps[3]

\* --------------------------------------- claims on the server's responses

\* analyze_company_website could not acquire its text: the scrape failed,
\* or nothing was left of the page after cleaning.
AcquisitionFailed ==
    /\ kind = "company" /\ Done
    /\ ~scrape_result.success \/ CleanedInput = <<>>

\* C18: an input-acquisition failure (the website scrape fails, or no
\* content could be acquired) is answered with a client-error status of
\* its own, and never as a normal successful response (status 200 with
\* success = true).
C18_AcquisitionFailureIsClientError ==
    AcquisitionFailed =>
        /\ 400 <= http_status /\ http_status < 500
        /\ ~SuccessFlag(http_status)

\* C19: whenever acquisition succeeded, any failure of remote-model calls
\* (some or all segments, or the fusion call) still produces the normal
\* successful response: /process_prompt and /analyze_company answer with
\* status 200 (success = true for the latter), the failure appears only as
\* text in the body, and the 500 / success = false answer of
\* analyze_company never follows from a remote-model failure.
C19_ModelFailureKeepsSuccessShape ==
    (kind \in {"prompt", "company"} /\ Done /\ replies # <<>>) =>
        /\ raised = ""
        /\ http_status = 200 /\ SuccessFlag(http_status)
        /\ Len(replies) = Len(requests)
        /\ result = LlmResult(kind, replies[Len(replies)])
        /\ IsString(result) /\ ~Blank(result)
        /\ \A i \in 1..Len(partials) :
               partials[i].text = LlmResult(kind, replies[i])

\* An analysis over three segments whose four requests all failed was
\* answered with status 200 and the last error text.
C19_Witness ==
    /\ kind = "company" /\ Done
    /\ Len(chunks) = 3 /\ Len(replies) = 4
    /\ \A j \in 1..4 : Failed(replies[j])
    /\ replies[4].kind = "status"
    /\ http_status = 200
    /\ result = HttpErrorText(replies[4].status, replies[4].body)

\* -------------------------------------------- claims on concurrent requests

\* Request t waits for the response of the remote model: the awaited
\* request of _call_groq_text, or a call of call_llm (the calls of
\* analyze_company_website after the fetch of the website).
RemoteCallInFlight(t) ==
    /\ task_pc[t] = "in_flight"
    /\ task_kind[t] = "prompt" \/ task_calls[t] >= 2

\* C20: while the remote call of one request is in flight, a website
\* analysis inside the handler analyze_company included, the other requests
\* of the server can make progress: a request that waits for the event
\* loop, to be started or to be resumed, can be run.
C20_OthersProgressDuringRemoteCall ==
    \A t, u \in DOMAIN task_pc :
        (t # u /\ RemoteCallInFlight(t) /\ task_pc[u] \in {"queued", "ready"}) =>
            ENABLED (Dispatch(u) \/ Resume(u))

\* ------------------------------------------------- claims on cancellation

\* C21: when the caller's request is aborted while segment k of N is being
\* analysed, the remote call in flight is abandoned (its response is never
\* taken), no remote call is sent for the segments k+1..N or for the
\* fusion, and the partial results are discarded: the handler produces no
\* analysis.
C21_AbortStopsRemoteCalls ==
    (kind = "company" /\ abort_at >= 0) =>
        /\ Len(requests) = abort_at
        /\ Len(replies) < abort_at
        /\ result = NoResult

\* -------------------------------------------------- claims on empty input

\* The text has no character other than whitespace.
OnlyWhitespace(t) == \A i \in 1..Len(t) : t[i] \in Whitespace

\* C22: on the text and audio paths the remote model is never called with
\* empty input: no request carries a text that is empty or whitespace only;
\* for such a prompt _call_groq_text returns its prompt-request message
\* without a request; when the transcription fails or gives an empty
\* transcript process_audio returns its not-understood reply without
\* calling _call_groq_text.
C22_NoModelCallOnEmptyInput ==
    /\ kind \in {"prompt", "audio"} =>
           \A j \in 1..Len(requests) : ~OnlyWhitespace(requests[j].chunk)
    /\ (kind = "prompt" /\ pc # "start" /\ OnlyWhitespace(prompt)) =>
           /\ Done
           /\ result = Fixed(MSG_PROMPT_REQUIRED)
           /\ requests = <<>>
    /\ (kind = "audio" /\ pc # "start" /\ raised = "" /\ transcript = <<>>) =>
           /\ Done
           /\ result = Fixed(MSG_NOT_UNDERSTOOD)
           /\ llm_calls = <<>>
           /\ requests = <<>>

\* With a credential, a prompt of whitespace only was answered with the
\* prompt-request message.
C22_Witness ==
    /\ kind = "prompt" /\ api_key /\ Done
    /\ prompt # <<>> /\ OnlyWhitespace(prompt)
    /\ result = Fixed(MSG_PROMPT_REQUIRED)
    /\ requests = <<>>

\* ------------------------------------- claims on the segments' emptiness

\* C23: split_chunks returns no empty segment, unless the text itself is
\* empty.
C23_NoEmptySegment ==
    sp_pc # "input" =>
        \A i \in 1..Len(sp_chunks) : sp_chunks[i] = <<>> => sp_text = <<>>

\* A text longer than the limit, with whitespace at its start and a run of
\* whitespace inside, was split into several segments.
C23_Witness ==
    /\ sp_pc # "input"
    /\ Len(sp_text) > sp_limit
    /\ sp_text[1] = " "
    /\ \E i \in 2..(Len(sp_text) - 2) : sp_text[i] = " " /\ sp_text[i + 1] = " "
    /\ Len(sp_chunks) >= 2
    /\ \A i \in 1..Len(sp_chunks) : sp_chunks[i] # <<>>

\* C26 as stated: split_chunks returns at least one segment for every text
\* and every limit, a text of whitespace only that is longer than the limit
\* included.
C26_AtLeastOneSegment == sp_pc # "input" => Len(sp_chunks) >= 1

\* C26, amended: split_chunks returns no segment exactly for the texts of
\* whitespace only that are longer than the limit; a text that is not empty
\* and has no whitespace at its ends, as clean_text returns it, always
\* gives at least one segment.
C26_NoSegmentOnlyForLongBlankText ==
    sp_pc # "input" =>
        /\ sp_chunks = <<>> <=> (Len(sp_text) > sp_limit /\ OnlyWhitespace(sp_text))
        /\ (sp_text # <<>> /\ strip(sp_text) = sp_text) => Len(sp_chunks) >= 1

\* Whitespace longer than the limit gave no segment.
C26_Witness ==
    /\ sp_pc # "input"
    /\ Len(sp_text) > sp_limit /\ sp_limit >= 1
    /\ OnlyWhitespace(sp_text)
    /\ sp_chunks = <<>>

\* ---------------------------------------- claims on the LinkedIn wrappers

\* The keys every record has.
RecordKeys ==
    {"name", "headline", "location", "summary", "experience", "education",
     "skills", "profile_url"}

\* C24: every record returned by scrape_linkedin_profile,
\* scrape_linkedin_profile_async and parse_linkedin_text, after a success
\* or a failure, has the keys name, headline, location, summary,
\* experience, education, skills and profile_url; a failed scrape is not
\* raised but returned, and its record has the key "error" as well.
C24_RecordShape ==
    \A c \in Callers :
        li_pc[c] = "done" =>
            /\ RecordKeys \subseteq DOMAIN li_record[c]
            /\ li_raised[c] # "" => "error" \in DOMAIN li_record[c]

\* Every attempt met an error status: the synchronous wrapper used up its
\* attempts and returned the record with the error, the asynchronous one
\* returned the record with the error of the first response.
C24_Witness ==
    /\ li_pc["basic"] = "done" /\ li_pc["async"] = "done"
    /\ li_sent["basic"] = li_MAX_RETRIES
    /\ li_raised["basic"] = "Failed to scrape profile after attempts"
    /\ DOMAIN li_record["basic"] = RecordKeys \cup {"error"}
    /\ li_raised["async"] = "HTTPStatusError"
    /\ DOMAIN li_record["async"] = RecordKeys \cup {"error"}

\* C30: scrape_profile_basic and scrape_profile_async follow the same retry
\* protocol: given the same outcome at each attempt they send the same
\* number of requests, at most max_retries, sleep retry_delay * (attempt + 1)
\* between the same attempts and never after the last, and end in the same
\* result or the same failure.
C30_SameRetryProtocol ==
    (li_pc["basic"] = "done" /\ li_pc["async"] = "done") =>
        /\ li_sent["basic"] = li_sent["async"]
        /\ li_sleeps["basic"] = li_sleeps["async"]
        /\ li_raised["basic"] = li_raised["async"]
        /\ DOMAIN li_record["basic"] = DOMAIN li_record["async"]
        /\ li_record["basic"] = li_record["async"]
        /\ \A m \in Methods :
              /\ li_sent[m] <= li_MAX_RETRIES
              /\ Len(li_sleeps[m]) <= li_sent[m]
              /\ li_sent[m] > 0 => Len(li_sleeps[m]) = li_sent[m] - 1
              /\ \A k \in 1..Len(li_sleeps[m]) :
                    li_sleeps[m][k] = DEFAULT_RETRY_DELAY * k

\* ------------------------------------- claims on the local-model server

\* C25: a POST of an audio file to /process_audio of the local-model server
\* is answered with status 200 and a JSON body that has the key "result".
C25_LocalAudioAnswersResult ==
    (kind = "local" /\ Done) =>
        /\ http_status = 200
        /\ raised = ""
        /\ result[1] = "body"
        /\ "result" \in DOMAIN result[2]

\* --------------------------------------------- claims on temporary files

\* C27: on every exit path of process_audio of Traitement/app.py taken
\* after the upload was written to disk (return, empty transcript, failed
\* transcoding, exception in the model call) every temporary file of the
\* request, the uploaded source and the transcoded WAV, has been removed
\* when the handler finishes.
C27_TemporaryFilesRemoved ==
    (kind = "audio" /\ Done) => tmp_files = {}

\* ------------------------------------ claims on the batch client's waits

\* C28: call_groq_with_retries never sleeps after its final attempt: every
\* wait, backoff or Retry-After, after a 429 response as after a 5xx
\* response or a transport error, is followed by another request.
C28_NoSleepAfterFinalAttempt ==
    BatchClient =>
        /\ Len(sleeps) <= attempt
        /\ requests # <<>> => Len(sleeps) = Len(requests) - 1

\* C29: call_groq_with_retries fails soft like the core client: whatever
\* the outcome of each attempt, a 2xx response with a body that is not JSON
\* or with an empty choices list included, no exception leaves it for the
\* batch driver, and it returns a string.
C29_BatchFailsSoft ==
    BatchClient =>
        /\ raised = ""
        /\ pc \in {"start", "await_batch", "done"}
        /\ (Done /\ replies # <<>> /\ replies[Len(replies)].kind = "ok") =>
               result[1] \in {"text", "fixed"}

====
